---- MODULE Spec2Model ----
(***************************************************************************)
(* Boiler Assistant v2.0: burn-phase engine (BurnEngine.cpp), fan shaping  *)
(* layer (FanControl.cpp), the parameter editors of the UI (UI.cpp) with   *)
(* the settings validation of EEPROMStorage, driven by loop().             *)
(*                                                                         *)
(* Time.  millis() is a 32-bit unsigned millisecond counter.  The model    *)
(* counts the clock in steps of 4 ms, so that the counter wraps at 2^30    *)
(* steps (= 2^32 ms) and every duration of the program (500, 1000, 3000,   *)
(* 5000, 60000 ms) is a whole number of steps.                             *)
(***************************************************************************)
EXTENDS Integers, Sequences, FiniteSets, TLC

\* ------------------------------------------------------------------ bounds
\* Ticks are explored until this many seconds have passed since boot.
MaxSeconds == 16

\* Horizon of the runs that only tick and start boosts.
MaxRunSeconds == 26

\* Horizon of the runs on the coal-bed time scale.
MaxLongSeconds == 610

\* Commands (keypad or external) accepted in one explored run.
MaxCommands == 2

\* Milliseconds between two consecutive control ticks (input of Tick).
TickMs == {2500, 5000}

\* Tick spacing used on the coal-bed time scale (every tick in between is
\* taken to see the same phase and temperature side of each threshold).
LongTickMs == {150000, 300000}

\* Smoothed flue temperatures handed to the engine (degrees F).
Temps == {240, 280, 330}

\* -------------------------------------------------------------- time base
ClockMod == 2^30

ToSteps(ms) == ms \div 4

\* variant: the difference is taken without wrapping
Elapsed_signed(t, start) == t - start

Elapsed(t, start) == (t - start + ClockMod) % ClockMod

HOLD_STABILITY_MS == 5000

RAMP_STABILITY_MS == 3000

\* millis() when setup() runs burnengine_init(), after delay(200)
BootMs == 200

\* ------------------------------------------------------------ burn phases
BURN_RAMP == "RAMP"

BURN_HOLD == "HOLD"

BURN_IDLE == "IDLE"

BURN_COALBED == "COALBED"

BURN_BOOST == "BOOST"

BURN_SAFETY == "SAFETY"

BurnState == {BURN_RAMP, BURN_HOLD, BURN_IDLE, BURN_COALBED, BURN_BOOST, BURN_SAFETY}

\* damper relay pin, active LOW: HIGH = closed, LOW = open
HIGH == "HIGH"

LOW == "LOW"

VARIABLES
    burnState,            \* BurnState burnState
    boostActive,          \* boost window
    boostStartMs,
    coalbedTimerActive,   \* COALBED entry timer
    coalbedStartMs,
    holdTimerActive,      \* HOLD stability timer (runs in RAMP)
    holdStartMs,
    rampTimerActive,      \* RAMP fallback timer (runs in HOLD)
    rampStartMs,
    damperRelay,          \* level last written to PIN_DAMPER_RELAY
    lastFan,              \* FanControl.cpp internal memory
    fanOn,
    prevBurnState,
    cfg,                  \* the int16_t configuration globals
    now,                  \* millis(), in 4 ms steps, modulo ClockMod
    smoothExh,            \* temperature given to the last tick
    rawFan,               \* result of the last burnengine_compute()
    finalFan,             \* result of the last fancontrol_apply()
    clock,                \* history: true time since power-on, 4 ms steps
    op,                   \* history: the operation that ran last
    prePhase,             \* history: burnState before that operation
    winOpen,              \* history: a boost was started and is not yet over
    winT0,                \* history: true time of that start
    lastOutBand,          \* history: last tick with temp < setpoint - deadband
    lastRampBreak,        \* history: last tick not (in HOLD and temp < setpoint - 2*deadband)
    lastNotLow,           \* history: last tick with temp >= flueLowThreshold
    scen,                 \* history: undisturbed in-band run that began in RAMP
    scenT0,               \* history: true time of the first tick of that run
    cmds,                 \* history: number of commands so far
    lastTCRead,           \* Sensors.cpp: millis() of the last hardware read
    lastTCValueF,         \* Sensors.cpp: cached raw value (NAN until accepted)
    sampleF,              \* result of the last exhaust_readF_cached()
    didRead,              \* history: that call read the hardware
    hwWord,               \* history: the word the last hardware read delivered
    lastAttempt,          \* history: true time of the last hardware read
    steady,               \* history: consecutive reads of the same valid word
    smoothLast,           \* Sensors.cpp: smoothed value, in 1/100 F (SNAN until set)
    rom                   \* the settings as stored in the EEPROM

engVars == <<burnState, boostActive, boostStartMs, coalbedTimerActive,
             coalbedStartMs, holdTimerActive, holdStartMs, rampTimerActive,
             rampStartMs, damperRelay>>

fanVars == <<lastFan, fanOn, prevBurnState>>

tickVars == <<now, smoothExh, rawFan, finalFan, clock>>

histVars == <<winOpen, winT0, lastOutBand, lastRampBreak, lastNotLow, scen, scenT0, cmds>>

sensVars == <<lastTCRead, lastTCValueF, sampleF, didRead, hwWord, lastAttempt, steady,
              smoothLast>>

vars == <<engVars, fanVars, cfg, rom, tickVars, op, prePhase, histVars, sensVars>>

\* the value of an invalid reading (outside the range of any temperature)
NAN == -9999

\* the smoothed value is a double; the model keeps it in hundredths of a
\* degree F, rounded down
SCALE == 100

\* the undefined smoothed value
SNAN == NAN * SCALE

\* ------------------------------------------------------- EEPROMStorage
\* one range repair of validateSettings(): a value outside lo..hi is
\* replaced by its default
Repair(v, lo, hi, def) == IF v < lo \/ v > hi THEN def ELSE v

\* variant: the cross-field repairs are left out
validateSettings_rangesOnly(c) ==
    [exhaustSetpoint       |-> Repair(c.exhaustSetpoint, 100, 900, 350),
     boostTimeSeconds      |-> Repair(c.boostTimeSeconds, 0, 1800, 30),
     deadbandF             |-> Repair(c.deadbandF, 0, 200, 25),
     clampMinPercent       |-> Repair(c.clampMinPercent, 0, 100, 10),
     clampMaxPercent       |-> Repair(c.clampMaxPercent, 0, 100, 100),
     deadzoneFanMode       |-> IF c.deadzoneFanMode # 0 /\ c.deadzoneFanMode # 1
                               THEN 0 ELSE c.deadzoneFanMode,
     coalBedTimerMinutes   |-> Repair(c.coalBedTimerMinutes, 0, 720, 30),
     flueLowThreshold      |-> Repair(c.flueLowThreshold, 0, 900, 250),
     flueRecoveryThreshold |-> Repair(c.flueRecoveryThreshold, 0, 900, 300)]

\* the repairs run in source order; only two of them read a field repaired
\* earlier (clamp min against clamp max, recovery against the low threshold)
validateSettings(c) ==
    LET cMin == Repair(c.clampMinPercent, 0, 100, 10)
        cMax == Repair(c.clampMaxPercent, 0, 100, 100)
        fLow == Repair(c.flueLowThreshold, 0, 900, 250)
        fRec == Repair(c.flueRecoveryThreshold, 0, 900, fLow + 50)
    IN  [exhaustSetpoint       |-> Repair(c.exhaustSetpoint, 100, 900, 350),
         boostTimeSeconds      |-> Repair(c.boostTimeSeconds, 0, 1800, 30),
         deadbandF             |-> Repair(c.deadbandF, 0, 200, 25),
         clampMinPercent       |-> IF cMin > cMax THEN cMax ELSE cMin,
         clampMaxPercent       |-> cMax,
         deadzoneFanMode       |-> IF c.deadzoneFanMode # 0 /\ c.deadzoneFanMode # 1
                                   THEN 0 ELSE c.deadzoneFanMode,
         coalBedTimerMinutes   |-> Repair(c.coalBedTimerMinutes, 0, 720, 30),
         flueLowThreshold      |-> fLow,
         flueRecoveryThreshold |-> IF fRec < fLow + 10 THEN fLow + 50 ELSE fRec]

\* the defaults eeprom_init() installs when the version byte does not match
DefaultSettings ==
    [exhaustSetpoint |-> 350, boostTimeSeconds |-> 30, deadbandF |-> 25,
     clampMinPercent |-> 10, clampMaxPercent |-> 100, deadzoneFanMode |-> 0,
     coalBedTimerMinutes |-> 30, flueLowThreshold |-> 250,
     flueRecoveryThreshold |-> 300]

\* EEPROM images found at power-on: a blank part, settings saved by the
\* editors, and an image that passes validateSettings() with a zero
\* coal-bed timer
BlankImage == [valid |-> FALSE, data |-> DefaultSettings]

SavedImage ==
    [valid |-> TRUE,
     data |-> [DefaultSettings EXCEPT !.boostTimeSeconds = 5,
                                      !.coalBedTimerMinutes = 5]]

ZeroTimerImage ==
    [valid |-> TRUE,
     data |-> [DefaultSettings EXCEPT !.boostTimeSeconds = 5,
                                      !.coalBedTimerMinutes = 0]]

\* longest boost and shortest coal-bed timer the editors accept
LongBoostImage ==
    [valid |-> TRUE,
     data |-> [DefaultSettings EXCEPT !.boostTimeSeconds = 300,
                                      !.coalBedTimerMinutes = 5]]

StoredSettings == {BlankImage, ZeroTimerImage}

eeprom_init(img) ==
    IF ~img.valid THEN validateSettings(DefaultSettings)
    ELSE validateSettings(img.data)

\* eeprom_saveAll(): the stored copy after every address has been written
eeprom_saveAll(c) == validateSettings(c)

\* the stored copy r after the addresses named in fields have been written
\* from the settings c
Written(r, c, fields) ==
    [f \in DOMAIN r |-> IF f \in fields THEN c[f] ELSE r[f]]

\* ---------------------------------------------------------- BurnEngine
Eng == [burnState |-> burnState, boostActive |-> boostActive,
        boostStartMs |-> boostStartMs,
        coalbedTimerActive |-> coalbedTimerActive,
        coalbedStartMs |-> coalbedStartMs,
        holdTimerActive |-> holdTimerActive, holdStartMs |-> holdStartMs,
        rampTimerActive |-> rampTimerActive, rampStartMs |-> rampStartMs,
        damperRelay |-> damperRelay, ret |-> rawFan]

burnengine_init(e, t) ==
    [e EXCEPT !.burnState = BURN_BOOST, !.boostActive = TRUE,
              !.boostStartMs = t, !.holdTimerActive = FALSE,
              !.rampTimerActive = FALSE, !.coalbedTimerActive = FALSE,
              !.damperRelay = HIGH]

\* variant: a boost that is already running is not restarted
burnengine_startBoost_noRestart(e, t) ==
    IF e.burnState = BURN_SAFETY \/ e.boostActive THEN e
    ELSE [e EXCEPT !.boostActive = TRUE, !.boostStartMs = t,
                   !.burnState = BURN_BOOST]

\* variant: the SAFETY guard is missing
burnengine_startBoost_unguarded(e, t) ==
    [e EXCEPT !.boostActive = TRUE, !.boostStartMs = t,
              !.burnState = BURN_BOOST]

\* variant: the start time is stamped before the SAFETY guard
burnengine_startBoost_stamped(e, t) ==
    IF e.burnState = BURN_SAFETY THEN [e EXCEPT !.boostStartMs = t]
    ELSE [e EXCEPT !.boostActive = TRUE, !.boostStartMs = t,
                   !.burnState = BURN_BOOST]

burnengine_startBoost(e, t) ==
    IF e.burnState = BURN_SAFETY THEN e
    ELSE [e EXCEPT !.boostActive = TRUE, !.boostStartMs = t,
                   !.burnState = BURN_BOOST]

\* variant: the SAFETY override leaves the boost window alone
SafetyOverride_keepsBoost(e) ==
    [e EXCEPT !.coalbedTimerActive = FALSE,
              !.holdTimerActive = FALSE, !.rampTimerActive = FALSE,
              !.damperRelay = HIGH, !.ret = 0]

\* variant: the damper relay is not written
SafetyOverride_noDamper(e) ==
    [e EXCEPT !.boostActive = FALSE, !.coalbedTimerActive = FALSE,
              !.holdTimerActive = FALSE, !.rampTimerActive = FALSE,
              !.ret = 0]

SafetyOverride(e) ==
    [e EXCEPT !.boostActive = FALSE, !.coalbedTimerActive = FALSE,
              !.holdTimerActive = FALSE, !.rampTimerActive = FALSE,
              !.damperRelay = HIGH, !.ret = 0]

\* variant: seconds compared with milliseconds
BoostRunning_unscaled(e, t, c) ==
    /\ e.boostActive
    /\ Elapsed(t, e.boostStartMs) < ToSteps(c.boostTimeSeconds)

BoostRunning(e, t, c) ==
    /\ e.boostActive
    /\ Elapsed(t, e.boostStartMs) < c.boostTimeSeconds * ToSteps(1000)

BoostMode(e) ==
    [e EXCEPT !.burnState = BURN_BOOST, !.damperRelay = LOW, !.ret = 100]

\* variant: the expired boost falls back to the resting phase
BoostExpired_toIdle(e) ==
    IF e.boostActive
    THEN [e EXCEPT !.boostActive = FALSE, !.burnState = BURN_IDLE]
    ELSE e

BoostExpired(e) ==
    IF e.boostActive
    THEN [e EXCEPT !.boostActive = FALSE, !.burnState = BURN_RAMP]
    ELSE e

CoalbedEntry(e, temp, t, c) ==
    IF temp < c.flueLowThreshold
    THEN LET e1 == IF ~e.coalbedTimerActive
                   THEN [e EXCEPT !.coalbedTimerActive = TRUE,
                                  !.coalbedStartMs = t]
                   ELSE e
             requiredMs == c.coalBedTimerMinutes * 60 * ToSteps(1000)
         IN  IF e1.coalbedTimerActive
                /\ Elapsed(t, e1.coalbedStartMs) >= requiredMs
             THEN [e1 EXCEPT !.burnState = BURN_COALBED,
                             !.coalbedTimerActive = FALSE,
                             !.holdTimerActive = FALSE,
                             !.rampTimerActive = FALSE]
             ELSE e1
    ELSE [e EXCEPT !.coalbedTimerActive = FALSE]

\* variant: the stability test is strict
RampCase_strict(e, temp, t, c) ==
    LET inHoldBand == temp >= c.exhaustSetpoint - c.deadbandF
    IN  IF inHoldBand
        THEN LET e1 == IF ~e.holdTimerActive
                       THEN [e EXCEPT !.holdTimerActive = TRUE,
                                      !.holdStartMs = t]
                       ELSE e
             IN  IF Elapsed(t, e1.holdStartMs) > ToSteps(HOLD_STABILITY_MS)
                 THEN [e1 EXCEPT !.burnState = BURN_HOLD,
                                 !.holdTimerActive = FALSE]
                 ELSE e1
        ELSE [e EXCEPT !.holdTimerActive = FALSE]

RampCase(e, temp, t, c) ==
    LET inHoldBand == temp >= c.exhaustSetpoint - c.deadbandF
    IN  IF inHoldBand
        THEN LET e1 == IF ~e.holdTimerActive
                       THEN [e EXCEPT !.holdTimerActive = TRUE,
                                      !.holdStartMs = t]
                       ELSE e
             IN  IF Elapsed(t, e1.holdStartMs) >= ToSteps(HOLD_STABILITY_MS)
                 THEN [e1 EXCEPT !.burnState = BURN_HOLD,
                                 !.holdTimerActive = FALSE]
                 ELSE e1
        ELSE [e EXCEPT !.holdTimerActive = FALSE]

HoldCase(e, temp, t, c) ==
    LET belowRampBand == temp < c.exhaustSetpoint - (c.deadbandF * 2)
    IN  IF belowRampBand
        THEN LET e1 == IF ~e.rampTimerActive
                       THEN [e EXCEPT !.rampTimerActive = TRUE,
                                      !.rampStartMs = t]
                       ELSE e
             IN  IF Elapsed(t, e1.rampStartMs) >= ToSteps(RAMP_STABILITY_MS)
                 THEN [e1 EXCEPT !.burnState = BURN_RAMP,
                                 !.rampTimerActive = FALSE,
                                 !.holdTimerActive = FALSE]
                 ELSE e1
        ELSE [e EXCEPT !.rampTimerActive = FALSE]

\* variant: the exit waits for the setpoint itself
CoalbedCase_aboveSetpoint(e, temp, c) ==
    IF temp > c.exhaustSetpoint
    THEN [e EXCEPT !.burnState = BURN_RAMP, !.holdTimerActive = FALSE,
                   !.rampTimerActive = FALSE]
    ELSE e

CoalbedCase(e, temp, c) ==
    IF temp > c.exhaustSetpoint - c.deadbandF
    THEN [e EXCEPT !.burnState = BURN_RAMP, !.holdTimerActive = FALSE,
                   !.rampTimerActive = FALSE]
    ELSE e

StateMachine(e, temp, t, c) ==
    CASE e.burnState = BURN_RAMP    -> RampCase(e, temp, t, c)
      [] e.burnState = BURN_HOLD    -> HoldCase(e, temp, t, c)
      [] e.burnState = BURN_COALBED -> CoalbedCase(e, temp, c)
      [] OTHER                      -> e

\* variant: the relay is driven open in every phase
DamperControl_alwaysOpen(e) == [e EXCEPT !.damperRelay = LOW]

DamperControl(e) ==
    IF e.burnState = BURN_IDLE
    THEN [e EXCEPT !.damperRelay = HIGH]
    ELSE [e EXCEPT !.damperRelay = LOW]

Min(a, b) == IF a < b THEN a ELSE b

\* Arduino constrain(x, lo, hi)
Constrain(x, lo, hi) == IF x < lo THEN lo ELSE IF x > hi THEN hi ELSE x

\* variant: the 80 % soft cap is missing
HoldFanCurve_noSoftCap(temp, c) ==
    LET error == c.exhaustSetpoint - temp
    IN  IF error <= 5 THEN c.clampMinPercent
        ELSE IF error <= 25
        THEN Constrain(c.clampMinPercent + (error - 5) * 2,
                       c.clampMinPercent, c.clampMaxPercent)
        ELSE Constrain(50 + (error - 25) * 2, c.clampMinPercent, 100)

\* variant: the soft cap of zone 2 sits at 90
HoldFanCurve_cap90(temp, c) ==
    LET error == c.exhaustSetpoint - temp
    IN  IF error <= 5 THEN c.clampMinPercent
        ELSE IF error <= 25
        THEN Constrain(Min(c.clampMinPercent + (error - 5) * 2, 90),
                       c.clampMinPercent, c.clampMaxPercent)
        ELSE LET fan == 50 + (error - 25) * 2
             IN  Constrain(IF error <= 40 THEN Min(fan, 80) ELSE fan,
                           c.clampMinPercent, 100)

HoldFanCurve(temp, c) ==
    LET error == c.exhaustSetpoint - temp
    IN  IF error <= 5 THEN c.clampMinPercent
        ELSE IF error <= 25
        THEN Constrain(Min(c.clampMinPercent + (error - 5) * 2, 80),
                       c.clampMinPercent, c.clampMaxPercent)
        ELSE LET fan == 50 + (error - 25) * 2
             IN  Constrain(IF error <= 40 THEN Min(fan, 80) ELSE fan,
                           c.clampMinPercent, 100)

\* variant: the coal bed keeps the idle trickle
FanDemand_coalbedTrickle(e, temp, c) ==
    IF e.burnState = BURN_BOOST THEN 100
    ELSE IF e.burnState = BURN_RAMP THEN 100
    ELSE IF e.burnState = BURN_HOLD THEN HoldFanCurve(temp, c)
    ELSE IF e.burnState = BURN_COALBED THEN c.clampMinPercent
    ELSE 0

FanDemand(e, temp, c) ==
    IF e.burnState = BURN_BOOST THEN 100
    ELSE IF e.burnState = BURN_RAMP THEN 100
    ELSE IF e.burnState = BURN_HOLD THEN HoldFanCurve(temp, c)
    ELSE 0

burnengine_compute(e, temp, t, c) ==
    IF e.burnState = BURN_SAFETY THEN SafetyOverride(e)
    ELSE IF BoostRunning(e, t, c) THEN BoostMode(e)
    ELSE LET e1 == BoostExpired(e)
             e2 == CoalbedEntry(e1, temp, t, c)
             e3 == StateMachine(e2, temp, t, c)
             e4 == DamperControl(e3)
         IN  [e4 EXCEPT !.ret = FanDemand(e4, temp, c)]

\* ---------------------------------------------------------- FanControl
Fan == [lastFan |-> lastFan, fanOn |-> fanOn,
        prevBurnState |-> prevBurnState, ret |-> finalFan]

fancontrol_init(f, phase) ==
    [f EXCEPT !.lastFan = 0, !.fanOn = FALSE, !.prevBurnState = phase]

fancontrol_handleStateChange(f, phase) ==
    IF phase # f.prevBurnState
    THEN LET f1 == IF phase \in {BURN_BOOST, BURN_IDLE, BURN_SAFETY}
                   THEN [f EXCEPT !.lastFan = 0, !.fanOn = FALSE]
                   ELSE f
         IN  [f1 EXCEPT !.prevBurnState = phase]
    ELSE f

\* variant: the fan is switched off five percent below clampMinPercent
Hysteresis_offLate(f, fan, c) ==
    LET onThreshold  == c.clampMinPercent + 10
        offThreshold == c.clampMinPercent - 5
        on1 == IF ~f.fanOn /\ fan > onThreshold THEN TRUE ELSE f.fanOn
        on2 == IF on1 /\ fan < offThreshold THEN FALSE ELSE on1
    IN  [f EXCEPT !.fanOn = on2, !.ret = IF on2 THEN fan ELSE 0]

\* variant: the fan switches on as soon as the demand exceeds clampMin
Hysteresis_noBand(f, fan, c) ==
    LET onThreshold  == c.clampMinPercent
        offThreshold == c.clampMinPercent
        on1 == IF ~f.fanOn /\ fan > onThreshold THEN TRUE ELSE f.fanOn
        on2 == IF on1 /\ fan < offThreshold THEN FALSE ELSE on1
    IN  [f EXCEPT !.fanOn = on2, !.ret = IF on2 THEN fan ELSE 0]

Hysteresis(f, fan, c) ==
    LET onThreshold  == c.clampMinPercent + 10
        offThreshold == c.clampMinPercent
        on1 == IF ~f.fanOn /\ fan > onThreshold THEN TRUE ELSE f.fanOn
        on2 == IF on1 /\ fan < offThreshold THEN FALSE ELSE on1
    IN  [f EXCEPT !.fanOn = on2, !.ret = IF on2 THEN fan ELSE 0]

\* variant: the smoothed value is not stored for the next call
fan_compute_memoryKept(f0, demand, phase, c) ==
    LET f == fancontrol_handleStateChange(f0, phase)
    IN  IF phase = BURN_SAFETY
        THEN [f EXCEPT !.lastFan = 0, !.fanOn = FALSE, !.ret = 0]
        ELSE IF phase = BURN_BOOST
        THEN [f EXCEPT !.lastFan = 100, !.fanOn = TRUE, !.ret = 100]
        ELSE LET fan  == (f.lastFan * 3 + demand) \div 4
                 fan1 == IF fan > c.clampMaxPercent
                         THEN c.clampMaxPercent ELSE fan
             IN  IF c.deadzoneFanMode = 1
                 THEN [f EXCEPT !.ret = IF fan1 < c.clampMinPercent
                                        THEN c.clampMinPercent ELSE fan1]
                 ELSE Hysteresis(f, fan1, c)

\* variant: the smoothed value is not limited to clampMaxPercent
fan_compute_noCeiling(f0, demand, phase, c) ==
    LET f == fancontrol_handleStateChange(f0, phase)
    IN  IF phase = BURN_SAFETY
        THEN [f EXCEPT !.lastFan = 0, !.fanOn = FALSE, !.ret = 0]
        ELSE IF phase = BURN_BOOST
        THEN [f EXCEPT !.lastFan = 100, !.fanOn = TRUE, !.ret = 100]
        ELSE LET fan  == (f.lastFan * 3 + demand) \div 4
                 f1   == [f EXCEPT !.lastFan = fan]
             IN  IF c.deadzoneFanMode = 1
                 THEN [f1 EXCEPT !.ret = IF fan < c.clampMinPercent
                                         THEN c.clampMinPercent ELSE fan]
                 ELSE Hysteresis(f1, fan, c)

\* variant: the constant-airflow mode does not floor the result
fan_compute_noFloor(f0, demand, phase, c) ==
    LET f == fancontrol_handleStateChange(f0, phase)
    IN  IF phase = BURN_SAFETY
        THEN [f EXCEPT !.lastFan = 0, !.fanOn = FALSE, !.ret = 0]
        ELSE IF phase = BURN_BOOST
        THEN [f EXCEPT !.lastFan = 100, !.fanOn = TRUE, !.ret = 100]
        ELSE LET fan  == (f.lastFan * 3 + demand) \div 4
                 f1   == [f EXCEPT !.lastFan = fan]
                 fan1 == IF fan > c.clampMaxPercent
                         THEN c.clampMaxPercent ELSE fan
             IN  IF c.deadzoneFanMode = 1
                 THEN [f1 EXCEPT !.ret = fan1]
                 ELSE Hysteresis(f1, fan1, c)

fan_compute(f0, demand, phase, c) ==
    LET f == fancontrol_handleStateChange(f0, phase)
    IN  IF phase = BURN_SAFETY
        THEN [f EXCEPT !.lastFan = 0, !.fanOn = FALSE, !.ret = 0]
        ELSE IF phase = BURN_BOOST
        THEN [f EXCEPT !.lastFan = 100, !.fanOn = TRUE, !.ret = 100]
        ELSE LET fan  == (f.lastFan * 3 + demand) \div 4
                 f1   == [f EXCEPT !.lastFan = fan]
                 fan1 == IF fan > c.clampMaxPercent
                         THEN c.clampMaxPercent ELSE fan
             IN  IF c.deadzoneFanMode = 1
                 THEN [f1 EXCEPT !.ret = IF fan1 < c.clampMinPercent
                                         THEN c.clampMinPercent ELSE fan1]
                 ELSE Hysteresis(f1, fan1, c)

\* --------------------------------------------------------------- state
SetEng(e) ==
    /\ burnState' = e.burnState
    /\ boostActive' = e.boostActive
    /\ boostStartMs' = e.boostStartMs
    /\ coalbedTimerActive' = e.coalbedTimerActive
    /\ coalbedStartMs' = e.coalbedStartMs
    /\ holdTimerActive' = e.holdTimerActive
    /\ holdStartMs' = e.holdStartMs
    /\ rampTimerActive' = e.rampTimerActive
    /\ rampStartMs' = e.rampStartMs
    /\ damperRelay' = e.damperRelay

SetFan(f) ==
    /\ lastFan' = f.lastFan
    /\ fanOn' = f.fanOn
    /\ prevBurnState' = f.prevBurnState

Note(name) ==
    /\ op' = name
    /\ prePhase' = burnState

\* a command: no tick is running, the tick history is left alone
Command(name) ==
    /\ cmds < MaxCommands
    /\ cmds' = cmds + 1
    /\ Note(name)
    /\ scen' = "off"
    /\ UNCHANGED <<tickVars, fanVars, lastOutBand, lastRampBreak, lastNotLow, scenT0>>
    /\ UNCHANGED sensVars

\* globals as the C++ initialisers leave them, before setup()
Globals ==
    [burnState |-> BURN_RAMP, boostActive |-> FALSE, boostStartMs |-> 0,
     coalbedTimerActive |-> FALSE, coalbedStartMs |-> 0,
     holdTimerActive |-> FALSE, holdStartMs |-> 0,
     rampTimerActive |-> FALSE, rampStartMs |-> 0,
     damperRelay |-> HIGH, ret |-> 0]

\* setup(): burnengine_init(); eeprom_init(); fancontrol_init()
InitFrom(images) ==
    /\ \E img \in images : cfg = eeprom_init(img)
    /\ rom = eeprom_saveAll(cfg)
    /\ LET e == burnengine_init(Globals, ToSteps(BootMs))
           f == fancontrol_init([lastFan |-> 0, fanOn |-> FALSE,
                                 prevBurnState |-> BURN_IDLE, ret |-> 0],
                                e.burnState)
       IN  /\ burnState = e.burnState
           /\ boostActive = e.boostActive
           /\ boostStartMs = e.boostStartMs
           /\ coalbedTimerActive = e.coalbedTimerActive
           /\ coalbedStartMs = e.coalbedStartMs
           /\ holdTimerActive = e.holdTimerActive
           /\ holdStartMs = e.holdStartMs
           /\ rampTimerActive = e.rampTimerActive
           /\ rampStartMs = e.rampStartMs
           /\ damperRelay = e.damperRelay
           /\ lastFan = f.lastFan
           /\ fanOn = f.fanOn
           /\ prevBurnState = f.prevBurnState
    /\ now = ToSteps(BootMs)
    /\ smoothExh = 330
    /\ rawFan = 0
    /\ finalFan = 0
    /\ clock = ToSteps(BootMs)
    /\ op = "setup"
    /\ prePhase = Globals.burnState
    /\ winOpen = TRUE
    /\ winT0 = ToSteps(BootMs)
    /\ lastOutBand = -1
    /\ lastRampBreak = -1
    /\ lastNotLow = -1
    /\ scen = "off"
    /\ scenT0 = 0
    /\ cmds = 0
    /\ lastTCRead = 0
    /\ lastTCValueF = NAN
    /\ sampleF = NAN
    /\ didRead = FALSE
    /\ hwWord = [fault |-> TRUE, tc14 |-> 0]
    /\ lastAttempt = -1
    /\ steady = 0
    /\ smoothLast = SNAN

\* a recorded tick time, forgotten (-1) once it is older than the window
Recent(stamp, t, window) ==
    IF stamp # -1 /\ t - stamp < window THEN stamp ELSE -1

Init == InitFrom(StoredSettings)

InHoldBand(temp, c) == temp >= c.exhaustSetpoint - c.deadbandF

BelowRampBand(temp, c) == temp < c.exhaustSetpoint - (c.deadbandF * 2)

\* one pass of loop(): burnengine_compute() then fancontrol_apply()
TickAt(ms, temp, limit) ==
    LET d == ToSteps(ms)
        t == (now + d) % ClockMod
        e == burnengine_compute(Eng, temp, t, cfg)
        f == fan_compute(Fan, e.ret, e.burnState, cfg)
        calm == InHoldBand(temp, cfg) /\ temp >= cfg.flueLowThreshold
    IN  /\ clock + d <= limit * ToSteps(1000)
        /\ now' = t
        /\ clock' = clock + d
        /\ smoothExh' = temp
        /\ SetEng(e)
        /\ rawFan' = e.ret
        /\ SetFan(f)
        /\ finalFan' = f.ret
        /\ Note("tick")
        /\ UNCHANGED <<cfg, rom, sensVars>>
        /\ winOpen' = (winOpen
                       /\ clock' - winT0 < cfg.boostTimeSeconds * ToSteps(1000))
        /\ winT0' = winT0
        /\ cmds' = cmds
        /\ lastOutBand' = IF InHoldBand(temp, cfg)
                          THEN Recent(lastOutBand, clock', ToSteps(HOLD_STABILITY_MS))
                          ELSE clock'
        /\ lastRampBreak' = IF burnState = BURN_HOLD /\ BelowRampBand(temp, cfg)
                            THEN Recent(lastRampBreak, clock', ToSteps(RAMP_STABILITY_MS))
                            ELSE clock'
        /\ lastNotLow' = IF temp < cfg.flueLowThreshold
                         THEN Recent(lastNotLow, clock',
                                     cfg.coalBedTimerMinutes * 60 * ToSteps(1000))
                         ELSE clock'
        /\ scen' = IF ~calm THEN "off"
                   ELSE IF scen = "run" THEN "run"
                   ELSE IF burnState = BURN_RAMP /\ ~holdTimerActive THEN "run"
                   ELSE "off"
        /\ scenT0' = IF scen' = "run" /\ scen # "run" THEN clock' ELSE scenT0

Tick(ms, temp) == TickAt(ms, temp, MaxSeconds)

\* burnengine_startBoost() called on its own
StartBoost ==
    /\ SetEng(burnengine_startBoost(Eng, now))
    /\ winOpen' = (burnState # BURN_SAFETY)
    /\ winT0' = IF burnState # BURN_SAFETY THEN clock ELSE winT0
    /\ Command("startBoost")
    /\ UNCHANGED <<cfg, rom>>

\* ui_handleKey(): '*' while the phase is COALBED
UiReset ==
    /\ burnState = BURN_COALBED
    /\ SetEng(burnengine_init(Eng, now))
    /\ winOpen' = TRUE
    /\ winT0' = clock
    /\ Command("uiReset")
    /\ UNCHANGED <<cfg, rom>>

\* clear-safety-and-reset(): re-enters through burnengine_init()
ClearSafetyAndReset ==
    /\ SetEng(burnengine_init(Eng, now))
    /\ winOpen' = TRUE
    /\ winT0' = clock
    /\ Command("reset")
    /\ UNCHANGED <<cfg, rom>>

\* force-safety(): the external safety command
ForceSafety ==
    /\ SetEng([Eng EXCEPT !.burnState = BURN_SAFETY])
    /\ winOpen' = FALSE
    /\ winT0' = winT0
    /\ Command("forceSafety")
    /\ UNCHANGED <<cfg, rom>>

\* the external/administrative transition into the resting phase
ForceIdle ==
    /\ burnState # BURN_SAFETY
    /\ SetEng([Eng EXCEPT !.burnState = BURN_IDLE])
    /\ UNCHANGED <<winOpen, winT0>>
    /\ Command("forceIdle")
    /\ UNCHANGED <<cfg, rom>>

\* ---- ui_handleKey(), key '#' in an editor holding the number v ----------
Clamp(v, lo, hi) == IF v < lo THEN lo ELSE IF v > hi THEN hi ELSE v

SetpointInputs == {0}

BoostTimeInputs == {5}

DeadbandInputs == {0}

CoalBedTimerInputs == {3}

FlueLowInputs == {0}

SetSetpoint(v) ==
    /\ cfg' = validateSettings([cfg EXCEPT !.exhaustSetpoint = Clamp(v, 200, 900)])
    /\ rom' = Written(rom, cfg', {"exhaustSetpoint"})
    /\ Command("setSetpoint")
    /\ UNCHANGED <<engVars, winOpen, winT0>>

\* the boost-time editor also starts a boost
SetBoostTime(v) ==
    /\ cfg' = validateSettings([cfg EXCEPT !.boostTimeSeconds = Clamp(v, 5, 300)])
    /\ rom' = Written(rom, cfg', {"boostTimeSeconds"})
    /\ SetEng(burnengine_startBoost(Eng, now))
    /\ winOpen' = (burnState # BURN_SAFETY)
    /\ winT0' = IF burnState # BURN_SAFETY THEN clock ELSE winT0
    /\ Command("setBoostTime")

SetDeadband(v) ==
    /\ cfg' = validateSettings([cfg EXCEPT !.deadbandF = Clamp(v, 1, 100)])
    /\ rom' = Written(rom, cfg', {"deadbandF"})
    /\ Command("setDeadband")
    /\ UNCHANGED <<engVars, winOpen, winT0>>

SetCoalBedTimer(v) ==
    /\ cfg' = validateSettings([cfg EXCEPT !.coalBedTimerMinutes = Clamp(v, 5, 60)])
    /\ rom' = Written(rom, cfg', {"coalBedTimerMinutes"})
    /\ Command("setCoalBedTimer")
    /\ UNCHANGED <<engVars, winOpen, winT0>>

SetFlueLow(v) ==
    /\ cfg' = validateSettings([cfg EXCEPT !.flueLowThreshold = Clamp(v, 200, 500)])
    /\ rom' = Written(rom, cfg', {"flueLowThreshold", "flueRecoveryThreshold"})
    /\ Command("setFlueLow")
    /\ UNCHANGED <<engVars, winOpen, winT0>>

Commands ==
    \/ StartBoost
    \/ UiReset
    \/ ClearSafetyAndReset
    \/ ForceSafety
    \/ ForceIdle
    \/ \E v \in SetpointInputs : SetSetpoint(v)
    \/ \E v \in BoostTimeInputs : SetBoostTime(v)
    \/ \E v \in DeadbandInputs : SetDeadband(v)
    \/ \E v \in CoalBedTimerInputs : SetCoalBedTimer(v)
    \/ \E v \in FlueLowInputs : SetFlueLow(v)

Next ==
    \/ \E ms \in TickMs, temp \in Temps : Tick(ms, temp)
    \/ Commands

\* every operation, in any order, from power-on
Spec == Init /\ [][Next]_vars

\* ticks and start-boost only, settings the editors can produce
InitRun == InitFrom({BlankImage, SavedImage})

TickRun(ms, temp) == TickAt(ms, temp, MaxRunSeconds)

NextRun ==
    \/ \E ms \in TickMs, temp \in Temps : TickRun(ms, temp)
    \/ StartBoost

SpecRun == InitRun /\ [][NextRun]_vars

\* the same on the time scale of the coal-bed timer
InitLong == InitFrom({LongBoostImage})

TickLong(ms, temp) == TickAt(ms, temp, MaxLongSeconds)

NextLong ==
    \/ \E ms \in LongTickMs, temp \in Temps : TickLong(ms, temp)
    \/ StartBoost

SpecLong == InitLong /\ [][NextLong]_vars

\* ------------------------------------------------------------------------
\* C1: a tick that starts in SAFETY ends with final fan percent 0, the damper
\* closed, and the boost window and the HOLD, RAMP-fallback and COALBED
\* timers inactive, whatever the phase, timers and demand were before.
C1_SafetyWins ==
    (op = "tick" /\ prePhase = BURN_SAFETY) =>
        /\ finalFan = 0
        /\ damperRelay = HIGH
        /\ ~boostActive
        /\ ~holdTimerActive
        /\ ~rampTimerActive
        /\ ~coalbedTimerActive

\* SAFETY was forced while a boost window was still running, then a tick ran
C1_Witness ==
    /\ op = "tick"
    /\ prePhase = BURN_SAFETY
    /\ Elapsed(now, boostStartMs) < cfg.boostTimeSeconds * ToSteps(1000)
    /\ smoothExh = 330
    /\ finalFan = 0

\* C2: once the phase is SAFETY no tick, start-boost or set-parameter command
\* changes it; only the reset (engine initialisation) leaves SAFETY.
C2_SafetyAbsorbing ==
    (prePhase = BURN_SAFETY
        /\ op \in {"tick", "startBoost", "setSetpoint", "setBoostTime",
                   "setDeadband", "setCoalBedTimer", "setFlueLow"}) =>
        burnState = BURN_SAFETY

\* the boost-time editor (set parameter + start boost) was used in SAFETY
C2_Witness ==
    /\ op = "setBoostTime"
    /\ prePhase = BURN_SAFETY
    /\ burnState = BURN_SAFETY

\* C3: a start-boost command issued in SAFETY leaves the phase, the boost
\* window (flag and start time) and all stability timers as they were.
C3_StartBoostIgnored ==
    [][(op' \in {"startBoost", "setBoostTime"} /\ burnState = BURN_SAFETY) =>
          UNCHANGED <<burnState, boostActive, boostStartMs,
                      coalbedTimerActive, coalbedStartMs, holdTimerActive,
                      holdStartMs, rampTimerActive, rampStartMs>>]_vars

\* start-boost in SAFETY, later than the start of the (stale) boost window
C3_Witness ==
    /\ op = "startBoost"
    /\ burnState = BURN_SAFETY
    /\ boostStartMs # now

\* C4: a tick never takes the phase into SAFETY or into IDLE from another
\* phase, and start-boost produces neither.
C4_NoInternalEntry ==
    (op \in {"tick", "startBoost", "setBoostTime"}) =>
        /\ prePhase # BURN_SAFETY => burnState # BURN_SAFETY
        /\ prePhase # BURN_IDLE => burnState # BURN_IDLE

\* a tick that took the COALBED exit
C4_Witness ==
    /\ op = "tick"
    /\ prePhase = BURN_COALBED
    /\ burnState = BURN_RAMP

\* C5: every tick earlier than boostTimeSeconds after an accepted start-boost
\* (or initialisation), with no SAFETY command since, ends in BOOST with final
\* fan percent 100 and the damper open.
C5_BoostHolds ==
    (op = "tick" /\ winOpen) =>
        /\ burnState = BURN_BOOST
        /\ finalFan = 100
        /\ damperRelay = LOW

\* a tick inside the window with a low flue temperature and a coal-bed timer
\* left running from before the boost
C5_Witness ==
    /\ op = "tick"
    /\ winOpen
    /\ smoothExh < cfg.flueLowThreshold
    /\ coalbedTimerActive

\* C6: the first tick at or after boostTimeSeconds since the accepted
\* start-boost (no SAFETY command since) closes the boost window and ends in
\* RAMP, whatever happened before the boost was started.
C6_ExpiryLeadsToRamp ==
    [][(clock' # clock /\ winOpen /\ ~winOpen') =>
          (~boostActive' /\ burnState' = BURN_RAMP)]_vars

\* C7: a tick that changes the phase to HOLD has seen no tick below
\* setpoint - deadband during the 5000 ms before it, and a tick in RAMP below
\* the band leaves the HOLD timer cancelled.
C7_HoldNeedsUnbrokenWindow ==
    /\ (op = "tick" /\ prePhase # BURN_HOLD /\ burnState = BURN_HOLD) =>
           lastOutBand = -1
    /\ (op = "tick" /\ prePhase = BURN_RAMP /\ ~InHoldBand(smoothExh, cfg)) =>
           ~holdTimerActive

\* C8: in a run of ticks that starts in RAMP with the HOLD timer inactive,
\* with the temperature held at or above setpoint - deadband and
\* flueLowThreshold and no command issued, the phase is RAMP at every tick
\* earlier than 5000 ms after the first tick of the run and HOLD at every tick
\* from the 5000 ms mark on (one RAMP->HOLD transition, none back).
C8_HoldAfterFiveSeconds ==
    scen = "run" =>
        /\ clock - scenT0 < ToSteps(HOLD_STABILITY_MS) => burnState = BURN_RAMP
        /\ clock - scenT0 >= ToSteps(HOLD_STABILITY_MS) => burnState = BURN_HOLD

\* a tick of such a run after the one that made the transition
C8_Witness ==
    /\ scen = "run"
    /\ op = "tick"
    /\ prePhase = BURN_HOLD
    /\ burnState = BURN_HOLD
    /\ clock - scenT0 > ToSteps(HOLD_STABILITY_MS)

\* C9: a tick that changes the phase from HOLD to RAMP has seen, during the
\* 3000 ms before it, only ticks in HOLD with the temperature below
\* setpoint - 2*deadband, and a tick in HOLD at or above that bound leaves the
\* RAMP-fallback timer cancelled.
C9_RampNeedsUnbrokenWindow ==
    /\ (op = "tick" /\ prePhase = BURN_HOLD /\ burnState = BURN_RAMP) =>
           lastRampBreak = -1
    /\ (op = "tick" /\ prePhase = BURN_HOLD /\ ~BelowRampBand(smoothExh, cfg)) =>
           ~rampTimerActive

\* C10: a tick that forces the phase to COALBED has seen no tick at or above
\* flueLowThreshold during the coal-bed duration before it, and a tick outside
\* SAFETY with the temperature at or above the threshold leaves the coal-bed
\* timer cancelled.
C10_CoalbedNeedsUnbrokenWindow ==
    /\ (op = "tick" /\ prePhase # BURN_COALBED /\ burnState = BURN_COALBED) =>
           lastNotLow = -1
    /\ (op = "tick" /\ prePhase # BURN_SAFETY
            /\ smoothExh >= cfg.flueLowThreshold) =>
           ~coalbedTimerActive

\* ------------------------------------------------------------------------
\* settings saved by the editors with the lowest setpoint they accept: the
\* band edge setpoint - deadband (175) lies below flueLowThreshold (250)
LowSetpointImage ==
    [valid |-> TRUE,
     data |-> [DefaultSettings EXCEPT !.exhaustSetpoint = 200,
                                      !.boostTimeSeconds = 5,
                                      !.coalBedTimerMinutes = 5]]

InitCoal == InitFrom({LowSetpointImage})

\* the coal-bed time scale with those settings
SpecCoal == InitCoal /\ [][NextLong]_vars

\* the firing condition of the coal-bed timer in a tick at time t: the
\* temperature is below the threshold and the timer (started now if it was
\* not running) is at least coalBedTimerMinutes old
CoalbedFires(e, temp, t, c) ==
    /\ temp < c.flueLowThreshold
    /\ Elapsed(t, IF e.coalbedTimerActive THEN e.coalbedStartMs ELSE t)
           >= c.coalBedTimerMinutes * 60 * ToSteps(1000)

\* C11: when the coal-bed timer fires in a tick whose phase is RAMP or HOLD,
\* the phase at the end of that tick is COALBED and the HOLD and RAMP-fallback
\* timers are inactive.
C11_CoalbedForced ==
    [][(op' = "tick" /\ burnState \in {BURN_RAMP, BURN_HOLD}
            /\ CoalbedFires(Eng, smoothExh', now', cfg)) =>
          (burnState' = BURN_COALBED /\ ~holdTimerActive' /\ ~rampTimerActive')]_vars

\* C12: a tick that starts in COALBED ends in RAMP if and only if the smoothed
\* temperature is strictly greater than setpoint - deadband, otherwise it ends
\* in COALBED; after the exit the HOLD and RAMP-fallback timers are inactive.
C12_CoalbedExit ==
    (op = "tick" /\ prePhase = BURN_COALBED) =>
        /\ burnState = BURN_RAMP <=>
               smoothExh > cfg.exhaustSetpoint - cfg.deadbandF
        /\ burnState \in {BURN_RAMP, BURN_COALBED}
        /\ burnState = BURN_RAMP => (~holdTimerActive /\ ~rampTimerActive)

\* the exit taken on the first tick above the band, without waiting
C12_Witness ==
    /\ op = "tick"
    /\ prePhase = BURN_COALBED
    /\ smoothExh > cfg.exhaustSetpoint - cfg.deadbandF
    /\ burnState = BURN_RAMP
    /\ ~holdTimerActive
    /\ ~rampTimerActive

\* C13: at the end of every tick the damper is closed if and only if the
\* phase at the end of that tick is IDLE or SAFETY; it is open in RAMP, HOLD,
\* COALBED and BOOST.
C13_DamperPolicy ==
    op = "tick" =>
        (damperRelay = HIGH <=> burnState \in {BURN_IDLE, BURN_SAFETY})

\* a tick that rests in IDLE with the damper closed, after ticks that had it
\* open
C13_Witness ==
    /\ op = "tick"
    /\ prePhase = BURN_IDLE
    /\ burnState = BURN_IDLE
    /\ damperRelay = HIGH
    /\ ~boostActive

\* C14: the raw demand returned by a tick is 100 when the phase at the end of
\* the tick is BOOST or RAMP and 0 when it is COALBED, IDLE or SAFETY,
\* whatever the temperature; it is always within 0..100.
C14_RawDemandByPhase ==
    op = "tick" =>
        /\ burnState \in {BURN_BOOST, BURN_RAMP} => rawFan = 100
        /\ burnState \in {BURN_COALBED, BURN_IDLE, BURN_SAFETY} => rawFan = 0
        /\ rawFan \in 0..100

\* a tick that ends in COALBED after a tick that demanded 100
C14_Witness ==
    /\ op = "tick"
    /\ prePhase = BURN_RAMP
    /\ burnState = BURN_COALBED
    /\ rawFan = 0

\* ------------------------------------------------------------------------
\* ---- ui_handleKey(), key '#' in the clamp editors, key '3' in the menu ---
ClampMinInputs == {0, 50, 90}

ClampMaxInputs == {40, 100}

SetClampMin(v) ==
    /\ cfg' = validateSettings([cfg EXCEPT !.clampMinPercent = Clamp(v, 0, 100)])
    /\ rom' = Written(rom, cfg', {"clampMinPercent", "clampMaxPercent"})
    /\ Command("setClampMin")
    /\ UNCHANGED <<engVars, winOpen, winT0>>

\* variant: the clamp-max save writes its own address only
SetClampMax_ownAddress(v) ==
    /\ cfg' = validateSettings([cfg EXCEPT !.clampMaxPercent = Clamp(v, 0, 100)])
    /\ rom' = Written(rom, cfg', {"clampMaxPercent"})
    /\ Command("setClampMax")
    /\ UNCHANGED <<engVars, winOpen, winT0>>

SetClampMax(v) ==
    /\ cfg' = validateSettings([cfg EXCEPT !.clampMaxPercent = Clamp(v, 0, 100)])
    /\ rom' = Written(rom, cfg', {"clampMinPercent", "clampMaxPercent"})
    /\ Command("setClampMax")
    /\ UNCHANGED <<engVars, winOpen, winT0>>

ToggleDeadzone ==
    /\ cfg' = validateSettings(
                 [cfg EXCEPT !.deadzoneFanMode =
                                 IF cfg.deadzoneFanMode # 0 THEN 0 ELSE 1])
    /\ rom' = Written(rom, cfg', {"deadzoneFanMode"})
    /\ Command("toggleDeadzone")
    /\ UNCHANGED <<engVars, winOpen, winT0>>

\* ---- the HOLD fan curve on its own ---------------------------------------
\* Largest error = setpoint - temperature handed to the curve.
MaxError == 55

CurveErrors == 0 .. MaxError

\* the HOLD branch of the fan demand, evaluated for one temperature
HoldDemand(temp) ==
    /\ smoothExh' = temp
    /\ rawFan' = HoldFanCurve(temp, cfg)
    /\ op' = "holdCurve"
    /\ UNCHANGED <<engVars, fanVars, cfg, rom, now, finalFan, clock, prePhase,
                   histVars>>
    /\ UNCHANGED sensVars

NextCurve ==
    \/ \E err \in CurveErrors : HoldDemand(cfg.exhaustSetpoint - err)
    \/ \E v \in ClampMinInputs : SetClampMin(v)
    \/ \E v \in ClampMaxInputs : SetClampMax(v)

SpecCurve == InitFrom({BlankImage}) /\ [][NextCurve]_vars

\* C15: for every integer error = setpoint - temperature and every
\* clampMin <= clampMax the HOLD demand is: clampMin for error <= 5;
\* min(clampMin + 2*(error-5), 80) brought into [clampMin, clampMax] for
\* 5 < error <= 25; and 50 + 2*(error-25), capped at 80 when error <= 40,
\* brought into [clampMin, 100] for error > 25.
C15_HoldCurve ==
    op = "holdCurve" =>
        LET error == cfg.exhaustSetpoint - smoothExh
            lo == cfg.clampMinPercent
            hi == cfg.clampMaxPercent
            Smaller(a, b) == IF a <= b THEN a ELSE b
            Larger(a, b) == IF a >= b THEN a ELSE b
            ramp2 == lo + 2 * (error - 5)
            ramp3 == 50 + 2 * (error - 25)
        IN  /\ lo <= hi
            /\ error <= 5 => rawFan = lo
            /\ (5 < error /\ error <= 25) =>
                   rawFan = Larger(lo, Smaller(hi, Smaller(ramp2, 80)))
            /\ (25 < error /\ error <= 40) =>
                   rawFan = Larger(lo, Smaller(100, Smaller(ramp3, 80)))
            /\ 40 < error => rawFan = Larger(lo, Smaller(100, ramp3))
            /\ (error = 50) => rawFan = 100

\* error 25 with clampMin 50: clampMin + 40 is cut to the 80 % soft cap
C15_Witness ==
    /\ op = "holdCurve"
    /\ cfg.exhaustSetpoint - smoothExh = 25
    /\ cfg.clampMinPercent = 50
    /\ cfg.clampMaxPercent = 100
    /\ rawFan = 80

\* ------------------------------------------------------------------------
\* ---- the fan shaping layer on its own ------------------------------------
\* Raw demands handed to fancontrol_apply().
Demands == {0, 10, 25, 100}

\* Values keyed into the clamp editors while the shaping layer is exercised.
FanClampMinInputs == {0}

FanClampMaxInputs == {40}

\* fancontrol_apply(demand) called while burnState is phase
FanApply(demand, phase) ==
    LET f == fan_compute(Fan, demand, phase, cfg)
    IN  /\ burnState' = phase
        /\ rawFan' = demand
        /\ SetFan(f)
        /\ finalFan' = f.ret
        /\ Note("apply")
        /\ UNCHANGED <<boostActive, boostStartMs, coalbedTimerActive,
                       coalbedStartMs, holdTimerActive, holdStartMs,
                       rampTimerActive, rampStartMs, damperRelay>>
        /\ UNCHANGED <<cfg, rom, now, smoothExh, clock, histVars, sensVars>>

NextFan ==
    \/ \E demand \in Demands, phase \in BurnState : FanApply(demand, phase)
    \/ \E v \in FanClampMinInputs : SetClampMin(v)
    \/ \E v \in FanClampMaxInputs : SetClampMax(v)
    \/ ToggleDeadzone

SpecFan == InitFrom({BlankImage}) /\ [][NextFan]_vars

\* the raw demand burnengine_compute() returns in a phase (any value of the
\* HOLD curve in HOLD)
EngineDemand(demand, phase) ==
    /\ phase \in {BURN_BOOST, BURN_RAMP} => demand = 100
    /\ phase \in {BURN_COALBED, BURN_IDLE, BURN_SAFETY} => demand = 0

\* C16: after an apply() call that observes a phase different from the one
\* seen on the previous call and equal to BOOST, IDLE or SAFETY (with the raw
\* demand the engine returns in that phase), the shaping memory is quiescent:
\* lastFan = 0 and the fan is off.
C16_QuiescentOnEntry ==
    [][(op' = "apply" /\ burnState' # prevBurnState
            /\ burnState' \in {BURN_BOOST, BURN_IDLE, BURN_SAFETY}
            /\ EngineDemand(rawFan', burnState')) =>
          (lastFan' = 0 /\ ~fanOn')]_vars

\* C17: in every phase other than BOOST the final percent returned by apply()
\* is within 0..clampMax; in BOOST it is exactly 100, also when clampMax < 100.
C17_ClampCeiling ==
    op = "apply" =>
        /\ burnState # BURN_BOOST => finalFan \in 0 .. cfg.clampMaxPercent
        /\ burnState = BURN_BOOST => finalFan = 100

\* outside BOOST, a smoothed value above the ceiling is cut to the ceiling
C17_Witness ==
    /\ op = "apply"
    /\ burnState = BURN_RAMP
    /\ cfg.clampMaxPercent = 40
    /\ lastFan > cfg.clampMaxPercent
    /\ finalFan = cfg.clampMaxPercent

\* C18: with the deadzone-fan flag on and clampMin <= clampMax, every apply()
\* call in a phase other than BOOST and SAFETY returns a final percent in
\* clampMin..clampMax; with clampMin = 10 a raw demand of 0 yields >= 10.
C18_DeadzoneFloor ==
    (op = "apply" /\ cfg.deadzoneFanMode = 1
        /\ cfg.clampMinPercent <= cfg.clampMaxPercent
        /\ burnState \notin {BURN_BOOST, BURN_SAFETY}) =>
        /\ finalFan \in cfg.clampMinPercent .. cfg.clampMaxPercent
        /\ (cfg.clampMinPercent = 10 /\ rawFan = 0) => finalFan >= 10

\* COALBED with raw demand 0 and an empty smoothing memory still blows 10 %
C18_Witness ==
    /\ op = "apply"
    /\ cfg.deadzoneFanMode = 1
    /\ cfg.clampMinPercent = 10
    /\ burnState = BURN_COALBED
    /\ rawFan = 0
    /\ lastFan = 0
    /\ finalFan = 10

\* the smoothed, ceiling-limited value the hysteresis of the call just made
\* has compared with its thresholds
EvaluatedDemand == Min(lastFan, cfg.clampMaxPercent)

IdleEntry == burnState' = BURN_IDLE /\ prevBurnState # BURN_IDLE

MaxSampleSeconds == 3

\* Milliseconds between two consecutive calls of exhaust_readF_cached().
SampleMs == {100, 300, 500}

\* Words the MAX31855 delivers: the fault bit (bit 16) and the 14-bit
\* thermocouple field (bits 31..18, quarter degrees C, two's complement).
\* The fields used are multiples of 20, for which the Fahrenheit value is a
\* whole number: 302, 320 and 500 F, 2201 F (above range), -148 F (below
\* range), and a fault.
HwWords ==
    {[fault |-> TRUE, tc14 |-> 600]}
    \cup {[fault |-> FALSE, tc14 |-> x] : x \in {600, 640, 1040, 4820, 15984}}

\* tcData * 0.25 C converted to F, from the sign-extended 14-bit field
RawTempF(w) ==
    LET tcData == IF w.tc14 >= 8192 THEN w.tc14 - 16384 ELSE w.tc14
    IN  (tcData * 9) \div 20 + 32

\* variant: impossible values are passed on
readMAX31855_F_noRange(w) ==
    IF w.fault THEN NAN ELSE RawTempF(w)

readMAX31855_F(w) ==
    IF w.fault THEN NAN
    ELSE IF RawTempF(w) < -100 \/ RawTempF(w) > 2000 THEN NAN
    ELSE RawTempF(w)

CADENCE_MS == 500

SPIKE_F == 150

\* variant: the gate opens after a fifth of the cadence
CadenceOpen_early(t, last) == Elapsed(t, last) >= ToSteps(CADENCE_MS \div 5)

\* the cadence gate of exhaust_readF_cached() at millis() = t
CadenceOpen(t, last) == Elapsed(t, last) >= ToSteps(CADENCE_MS)

Abs(x) == IF x < 0 THEN -x ELSE x

\* variant: every valid reading is cached
AcceptReading_noSpike(cached, hw) ==
    IF hw = NAN THEN cached ELSE hw

\* the cached value after a hardware read that returned hw
AcceptReading(cached, hw) ==
    IF hw = NAN THEN cached
    ELSE IF cached # NAN /\ Abs(hw - cached) > SPIKE_F THEN cached
    ELSE hw

\* Consecutive hardware reads of one valid word that are counted.
SteadyReads == 4

\* exhaust_readF_cached() called ms after the previous operation; w is the
\* word the hardware delivers if it is read
Acquire(ms, w, limit) ==
    LET d == ToSteps(ms)
        t == (now + d) % ClockMod
        open == CadenceOpen(t, lastTCRead)
        hw == readMAX31855_F(w)
    IN  /\ clock + d <= limit * ToSteps(1000)
        /\ now' = t
        /\ clock' = clock + d
        /\ lastTCRead' = IF open THEN t ELSE lastTCRead
        /\ lastTCValueF' = IF open THEN AcceptReading(lastTCValueF, hw)
                           ELSE lastTCValueF
        /\ sampleF' = lastTCValueF'
        /\ didRead' = open
        /\ hwWord' = IF open THEN w ELSE hwWord
        /\ lastAttempt' = IF open THEN clock' ELSE lastAttempt
        /\ steady' = IF ~open THEN steady
                      ELSE IF hw = NAN THEN 0
                      ELSE IF w = hwWord THEN Min(steady + 1, SteadyReads)
                      ELSE 1
        /\ UNCHANGED <<engVars, fanVars, cfg, rom, smoothExh, rawFan, finalFan,
                       histVars>>

Sample(ms, w) ==
    /\ Acquire(ms, w, MaxSampleSeconds)
    /\ Note("sample")
    /\ UNCHANGED smoothLast

NextSensor == \E ms \in SampleMs, w \in HwWords : Sample(ms, w)

SpecSensor == InitFrom({BlankImage}) /\ [][NextSensor]_vars

\* C20: any two hardware read attempts are at least 500 ms apart, and a call
\* made less than 500 ms after the last attempt performs no hardware read and
\* returns the cached raw value unchanged.
C20_CadenceGate ==
    [][op' = "sample" =>
          /\ (didRead' /\ lastAttempt # -1) =>
                 clock' - lastAttempt >= ToSteps(500)
          /\ (lastAttempt # -1 /\ clock' - lastAttempt < ToSteps(500)) =>
                 /\ ~didRead'
                 /\ lastTCValueF' = lastTCValueF
                 /\ sampleF' = lastTCValueF]_vars

\* a call 400 ms after a read that cached a temperature: no read, same value
C20_Witness ==
    /\ op = "sample"
    /\ ~didRead
    /\ lastAttempt # -1
    /\ clock - lastAttempt = ToSteps(400)
    /\ sampleF # NAN
    /\ sampleF = lastTCValueF

\* the reading is one the acquisition accepts as plausible
Plausible(w) == ~w.fault /\ RawTempF(w) >= -100 /\ RawTempF(w) <= 2000

\* C21: a read that reports a hardware fault or a value outside -100..2000 F
\* leaves the cached raw value as it was and returns it; the cached value
\* changes only to the in-range value delivered by the read of that call.
C21_RejectedLeaveCache ==
    [][op' = "sample" =>
          /\ (didRead' /\ ~Plausible(hwWord')) =>
                 (lastTCValueF' = lastTCValueF /\ sampleF' = lastTCValueF)
          /\ lastTCValueF' # lastTCValueF =>
                 /\ didRead'
                 /\ Plausible(hwWord')
                 /\ lastTCValueF' = RawTempF(hwWord')]_vars

\* a reading 201 F above the range arrived while nothing was cached yet
C21_Witness ==
    /\ op = "sample"
    /\ didRead
    /\ ~hwWord.fault
    /\ RawTempF(hwWord) > 2000
    /\ lastTCValueF = NAN
    /\ sampleF = NAN

\* C22: once a value is cached, a plausible reading more than 150 F away from
\* it is rejected and the cache keeps its value, so the cached value never
\* moves by more than 150 F from one call to the next; the first plausible
\* reading is cached without a spike check.
C22_SpikeRejected ==
    [][op' = "sample" =>
          /\ (didRead' /\ lastTCValueF # NAN /\ Plausible(hwWord')
                  /\ (RawTempF(hwWord') - lastTCValueF > 150
                      \/ lastTCValueF - RawTempF(hwWord') > 150)) =>
                 (lastTCValueF' = lastTCValueF /\ sampleF' = lastTCValueF)
          /\ lastTCValueF # NAN =>
                 /\ lastTCValueF' # NAN
                 /\ lastTCValueF' - lastTCValueF <= 150
                 /\ lastTCValueF - lastTCValueF' <= 150
          /\ (didRead' /\ lastTCValueF = NAN /\ Plausible(hwWord')) =>
                 lastTCValueF' = RawTempF(hwWord')]_vars

\* 500 F read while 320 F is cached: the cache keeps 320 F
C22_Witness ==
    /\ op = "sample"
    /\ didRead
    /\ Plausible(hwWord)
    /\ RawTempF(hwWord) = 500
    /\ lastTCValueF = 320
    /\ sampleF = 320

\* ------------------------------------------------------------------------
\* ---- acquisition and smoothing, the sensor part of loop() ----------------
\* Passes of loop() are explored until this many seconds have passed since
\* boot.
MaxSmoothSeconds == 2

\* Milliseconds between two consecutive passes of loop().
SmoothMs == {250, 500}

\* Words read while the filter is exercised: a fault, 302, 446 and 590 F.
SmoothWords ==
    {[fault |-> TRUE, tc14 |-> 600]}
    \cup {[fault |-> FALSE, tc14 |-> x] : x \in {600, 920, 1240}}

\* variant: the weights of the filter are exchanged
smoothExhaustF_swapped(last, rawF) ==
    IF rawF = NAN THEN last
    ELSE IF last = SNAN THEN rawF * SCALE
    ELSE (last * 12 + rawF * SCALE * 88) \div 100

\* smoothExhaustF(rawF): the new smoothLast, which is also the value returned
smoothExhaustF(last, rawF) ==
    IF rawF = NAN THEN last
    ELSE IF last = SNAN THEN rawF * SCALE
    ELSE (last * 88 + rawF * SCALE * 12) \div 100

\* loop(), step 1: exhaust_readF_cached() then smoothExhaustF()
Sense(ms, w) ==
    /\ Acquire(ms, w, MaxSmoothSeconds)
    /\ smoothLast' = smoothExhaustF(smoothLast, sampleF')
    /\ Note("sense")

NextSmooth == \E ms \in SmoothMs, w \in SmoothWords : Sense(ms, w)

SpecSmooth == InitFrom({BlankImage}) /\ [][NextSmooth]_vars

\* C23: the smoothed temperature is undefined until the first valid raw
\* input, equals that input when it arrives, is unchanged by a call whose raw
\* input is invalid, and otherwise becomes 0.88 * previous + 0.12 * raw on
\* every call, also on calls that returned an unchanged cached raw value
\* (to the 1/100 F the smoothed value is kept in).
C23_Smoothing ==
    [][op' = "sense" =>
          /\ sampleF' = NAN => (smoothLast' = smoothLast /\ smoothLast' = SNAN)
          /\ (sampleF' # NAN /\ smoothLast = SNAN) =>
                 smoothLast' = 100 * sampleF'
          /\ (sampleF' # NAN /\ smoothLast # SNAN) =>
                 /\ 100 * smoothLast' <= 88 * smoothLast + 1200 * sampleF'
                 /\ 88 * smoothLast + 1200 * sampleF' < 100 * (smoothLast' + 1)]_vars

\* a pass without a hardware read has moved the smoothed value further
\* towards the cached raw value
C23_Witness ==
    /\ op = "sense"
    /\ ~didRead
    /\ sampleF = 446
    /\ smoothLast > 100 * 302
    /\ smoothLast < 100 * 446
    /\ smoothLast # (88 * 100 * 302 + 1200 * 446) \div 100

\* C24: once the smoothed temperature is defined it never changes by more
\* than 18 F (12 % of the 150 F spike threshold) in one pass.
C24_SingleStepBound ==
    [][(op' = "sense" /\ smoothLast # SNAN) =>
          /\ smoothLast' - smoothLast <= 18 * 100
          /\ smoothLast - smoothLast' <= 18 * 100]_vars

\* ------------------------------------------------------------------------
\* ---- the settings: power-on load and the editors --------------------------
\* EEPROM images with crossed clamps, a recovery threshold too close to the
\* low threshold, and values outside every range
CrossedImage ==
    [valid |-> TRUE,
     data |-> [DefaultSettings EXCEPT !.clampMinPercent = 80,
                                      !.clampMaxPercent = 40,
                                      !.flueRecoveryThreshold = 255]]

WildImage ==
    [valid |-> TRUE,
     data |-> [exhaustSetpoint |-> -1, boostTimeSeconds |-> 2000,
               deadbandF |-> 201, clampMinPercent |-> 150,
               clampMaxPercent |-> 30, deadzoneFanMode |-> 7,
               coalBedTimerMinutes |-> 721, flueLowThreshold |-> 700,
               flueRecoveryThreshold |-> 950]]

ConfigImages == {BlankImage, CrossedImage, WildImage}

\* numbers typed into an editor (digits only)
ConfigInputs == {0, 3, 40, 50, 100, 255, 300, 505, 650, 9999}

\* ui_handleKey(), key '#' in the flue-recovery editor
SetFlueRecovery(v) ==
    /\ cfg' = validateSettings(
                 [cfg EXCEPT !.flueRecoveryThreshold =
                     IF v < cfg.flueLowThreshold + 10
                     THEN Min(cfg.flueLowThreshold + 10, 600)
                     ELSE Min(v, 600)])
    /\ rom' = Written(rom, cfg', {"flueLowThreshold", "flueRecoveryThreshold"})
    /\ Command("setFlueRecovery")
    /\ UNCHANGED <<engVars, winOpen, winT0>>

NextConfig ==
    \/ \E v \in ConfigInputs : SetSetpoint(v)
    \/ \E v \in ConfigInputs : SetBoostTime(v)
    \/ \E v \in ConfigInputs : SetDeadband(v)
    \/ \E v \in ConfigInputs : SetClampMin(v)
    \/ \E v \in ConfigInputs : SetClampMax(v)
    \/ \E v \in ConfigInputs : SetCoalBedTimer(v)
    \/ \E v \in ConfigInputs : SetFlueLow(v)
    \/ \E v \in ConfigInputs : SetFlueRecovery(v)
    \/ ToggleDeadzone

SpecConfig == InitFrom(ConfigImages) /\ [][NextConfig]_vars

\* C25: after the load at power-on and after every sequence of editor
\* commands, clampMin <= clampMax and flueRecovery >= flueLow + 10 hold for
\* the settings in memory and for the stored copy.
C25_ConfigInvariant ==
    /\ cfg.clampMinPercent <= cfg.clampMaxPercent
    /\ cfg.flueRecoveryThreshold >= cfg.flueLowThreshold + 10
    /\ rom.clampMinPercent <= rom.clampMaxPercent
    /\ rom.flueRecoveryThreshold >= rom.flueLowThreshold + 10

\* the low threshold was raised to the recovery threshold, and the recovery
\* threshold was moved up in memory and in the stored copy
C25_Witness ==
    /\ op = "setFlueLow"
    /\ cfg.flueLowThreshold = 300
    /\ cfg.flueRecoveryThreshold = 350
    /\ rom.flueLowThreshold = 300
    /\ rom.flueRecoveryThreshold = 350

\* the value in lo..hi nearest to v
Normalised(v, lo, hi) == IF v < lo THEN lo ELSE IF v > hi THEN hi ELSE v

\* C26: every set command leaves its parameter equal to the argument when
\* the argument is within the documented bounds, and at the nearest bound
\* otherwise (setpoint 200..900, boost 5..300, deadband 1..100, clamps
\* 0..100, coal-bed timer 5..60, flue-low 200..500, flue-recovery
\* flue-low + 10 .. 600).
C26_SetNormalises ==
    [][\A v \in ConfigInputs :
          /\ SetSetpoint(v) => cfg'.exhaustSetpoint = Normalised(v, 200, 900)
          /\ SetBoostTime(v) => cfg'.boostTimeSeconds = Normalised(v, 5, 300)
          /\ SetDeadband(v) => cfg'.deadbandF = Normalised(v, 1, 100)
          /\ SetClampMin(v) => cfg'.clampMinPercent = Normalised(v, 0, 100)
          /\ SetClampMax(v) => cfg'.clampMaxPercent = Normalised(v, 0, 100)
          /\ SetCoalBedTimer(v) =>
                 cfg'.coalBedTimerMinutes = Normalised(v, 5, 60)
          /\ SetFlueLow(v) => cfg'.flueLowThreshold = Normalised(v, 200, 500)
          /\ SetFlueRecovery(v) =>
                 cfg'.flueRecoveryThreshold =
                     Normalised(v, cfg.flueLowThreshold + 10, 600)]_vars

\* C27: after every tick and every command the HOLD-entry timer is active
\* only in RAMP and the RAMP-fallback timer is active only in HOLD.
C27_TimersDieWithPhase ==
    /\ holdTimerActive => burnState = BURN_RAMP
    /\ rampTimerActive => burnState = BURN_HOLD

\* C28: immediately after start-up and immediately after a reset through
\* the engine initialisation the phase is RAMP and the HOLD, RAMP-fallback
\* and COALBED timers are inactive.
C28_StartsInRamp ==
    op \in {"setup", "uiReset", "reset"} =>
        /\ burnState = BURN_RAMP
        /\ ~holdTimerActive
        /\ ~rampTimerActive
        /\ ~coalbedTimerActive

\* ------------------------------------------------------------------------
\* ---- loop() with the engine call and the fan call as separate steps ------
\* Passes of loop() are explored until this many seconds have passed since
\* boot.
MaxFrameSeconds == 13

\* the globals both layers can reach
World == [eng |-> Eng, fan |-> Fan, cfg |-> cfg]

SetWorld(w) ==
    /\ SetEng(w.eng)
    /\ SetFan(w.fan)
    /\ cfg' = w.cfg

\* loop(), step 2: burnengine_compute(smoothExh) and the globals it assigns
burnengine_step(w, temp, t) ==
    [w EXCEPT !.eng = burnengine_compute(w.eng, temp, t, w.cfg)]

\* variant: the fan layer clears the stability timers when it sees a new
\* phase
fancontrol_apply_clearsTimers(w, demand) ==
    [w EXCEPT !.fan = fan_compute(w.fan, demand, w.eng.burnState, w.cfg),
              !.eng.holdTimerActive =
                  IF w.fan.prevBurnState # w.eng.burnState THEN FALSE ELSE @,
              !.eng.rampTimerActive =
                  IF w.fan.prevBurnState # w.eng.burnState THEN FALSE ELSE @]

\* loop(), step 3: fancontrol_apply(rawFan) and the globals it assigns
fancontrol_apply(w, demand) ==
    [w EXCEPT !.fan = fan_compute(w.fan, demand, w.eng.burnState, w.cfg)]

EngineStep(ms, temp) ==
    LET d == ToSteps(ms)
        t == (now + d) % ClockMod
        w == burnengine_step(World, temp, t)
    IN  /\ op # "engine"
        /\ clock + d <= MaxFrameSeconds * ToSteps(1000)
        /\ now' = t
        /\ clock' = clock + d
        /\ smoothExh' = temp
        /\ SetWorld(w)
        /\ rawFan' = w.eng.ret
        /\ Note("engine")
        /\ UNCHANGED <<rom, finalFan, histVars, sensVars>>

ApplyStep ==
    LET w == fancontrol_apply(World, rawFan)
    IN  /\ op = "engine"
        /\ SetWorld(w)
        /\ finalFan' = w.fan.ret
        /\ Note("applyStep")
        /\ UNCHANGED <<rom, now, clock, smoothExh, rawFan, histVars, sensVars>>

\* loop(), step 4: a key is handled after the fan call
KeyStep ==
    /\ op # "engine"
    /\ \/ StartBoost
       \/ ForceSafety
       \/ ForceIdle
       \/ ClearSafetyAndReset
       \/ \E v \in FanClampMinInputs : SetClampMin(v)
       \/ ToggleDeadzone

NextFrame ==
    \/ \E ms \in TickMs, temp \in Temps : EngineStep(ms, temp)
    \/ ApplyStep
    \/ KeyStep

SpecFrame == Init /\ [][NextFrame]_vars

\* C29: the fan call never changes the phase, the boost window, a stability
\* timer or a setting; the engine call never changes the fan shaping memory
\* (lastFan, fanOn, prevBurnState) or a setting.
C29_SingleWriter ==
    [][/\ op' = "applyStep" =>
              UNCHANGED <<burnState, boostActive, boostStartMs,
                          holdTimerActive, holdStartMs, rampTimerActive,
                          rampStartMs, coalbedTimerActive, coalbedStartMs,
                          cfg>>
       /\ op' = "engine" =>
              UNCHANGED <<lastFan, fanOn, prevBurnState, cfg>>]_vars

\* the fan call has seen a change of phase into RAMP while the HOLD-entry
\* timer was running, and has changed its own memory
C29_Witness ==
    /\ op = "applyStep"
    /\ burnState = BURN_RAMP
    /\ holdTimerActive
    /\ prevBurnState = BURN_RAMP
    /\ lastFan > 0
    /\ fanOn

\* C30: with unchanged settings the raw HOLD demand never drops when the
\* error = setpoint - temperature grows: of two consecutive evaluations of
\* the curve, the one with the larger error gives the larger or equal
\* demand.
C30_HoldCurveMonotone ==
    [][(/\ op = "holdCurve"
        /\ op' = "holdCurve"
        /\ cfg.exhaustSetpoint - smoothExh <= cfg.exhaustSetpoint - smoothExh')
       => rawFan <= rawFan']_vars

\* C31 as stated: in HOLD, for every error <= 40 and every clampMin <=
\* clampMax, the raw demand does not exceed 80.
C31_SoftCeilingAsStated ==
    (op = "holdCurve" /\ cfg.exhaustSetpoint - smoothExh <= 40)
        => rawFan <= 80

\* C31: in HOLD, for every error <= 40, the raw demand does not exceed 80
\* unless the configured minimum is above 80, in which case it equals the
\* minimum; a demand above both 80 and clampMin needs an error above 40.
C31_SoftCeiling ==
    (op = "holdCurve" /\ cfg.exhaustSetpoint - smoothExh <= 40)
        => (rawFan <= 80 \/ rawFan = cfg.clampMinPercent)

\* error 22 with clampMin 50: clampMin + 34 is cut to 80
C31_Witness ==
    /\ op = "holdCurve"
    /\ cfg.clampMinPercent = 50
    /\ cfg.clampMaxPercent = 100
    /\ cfg.exhaustSetpoint - smoothExh = 22
    /\ rawFan = 80

\* C32: start-boost from any phase other than SAFETY sets the phase to BOOST
\* at once and opens a window that starts at the command time, also when a
\* boost is already running; every tick earlier than boostTimeSeconds after
\* the most recent start-boost ends in BOOST.
C32_StartBoostRestarts ==
    [][/\ (op' \in {"startBoost", "setBoostTime"} /\ burnState # BURN_SAFETY) =>
              /\ burnState' = BURN_BOOST
              /\ boostActive'
              /\ boostStartMs' = now'
       /\ (op' = "tick" /\ winOpen') => burnState' = BURN_BOOST]_vars

\* start-boost has restarted the window of a boost that was still running
C32_Witness ==
    /\ op = "startBoost"
    /\ prePhase = BURN_BOOST
    /\ burnState = BURN_BOOST
    /\ boostActive
    /\ boostStartMs = now
    /\ now # ToSteps(BootMs)
    /\ winT0 = clock

\* C33: at the end of every tick the boost window is active if and only if
\* the phase is BOOST.
C33_BoostWindowAgrees ==
    op = "tick" => (boostActive <=> burnState = BURN_BOOST)

\* SAFETY was forced while the boost was running; the tick has closed the
\* window before its duration was over
C33_Witness ==
    /\ op = "tick"
    /\ burnState = BURN_SAFETY
    /\ ~boostActive
    /\ clock - winT0 < cfg.boostTimeSeconds * ToSteps(1000)

\* C34: in hysteresis mode every apply() call outside BOOST and SAFETY
\* returns 0 when it leaves the fan off and the smoothed value limited to
\* clampMax, which is then at least clampMin, when it leaves the fan on.
C34_ZeroOrWithinClamps ==
    (/\ op = "apply"
     /\ cfg.deadzoneFanMode = 0
     /\ burnState \notin {BURN_BOOST, BURN_SAFETY}) =>
        /\ cfg.clampMinPercent <= cfg.clampMaxPercent
        /\ ~fanOn => finalFan = 0
        /\ fanOn =>
               /\ finalFan = Min(lastFan, cfg.clampMaxPercent)
               /\ finalFan >= cfg.clampMinPercent
               /\ finalFan <= cfg.clampMaxPercent

\* a falling demand inside the hysteresis band: the fan is still on, between
\* clampMin and clampMin + 10
C34_Witness ==
    /\ op = "apply"
    /\ cfg.deadzoneFanMode = 0
    /\ cfg.clampMinPercent = 10
    /\ burnState = BURN_RAMP
    /\ rawFan = 0
    /\ fanOn
    /\ finalFan >= 10
    /\ finalFan <= 20

\* ------------------------------------------------------------------------
\* ---- the fan layer under a demand that stays constant --------------------
\* phases in which the fan layer smooths the demand and which do not clear
\* its memory on entry
SettlePhases == {BURN_RAMP, BURN_HOLD, BURN_COALBED}

\* fancontrol_apply(demand) called again and again with the same demand in
\* the same phase; the first call fixes both
Settle(demand, phase) ==
    LET f == fan_compute(Fan, demand, phase, cfg)
    IN  /\ EngineDemand(demand, phase)
        /\ op = "settle" => (demand = rawFan /\ phase = burnState)
        /\ burnState' = phase
        /\ rawFan' = demand
        /\ SetFan(f)
        /\ finalFan' = f.ret
        /\ Note("settle")
        /\ UNCHANGED <<boostActive, boostStartMs, coalbedTimerActive,
                       coalbedStartMs, holdTimerActive, holdStartMs,
                       rampTimerActive, rampStartMs, damperRelay>>
        /\ UNCHANGED <<cfg, rom, now, smoothExh, clock, histVars, sensVars>>

\* settings saved with the fan floor at 0 %
ZeroFloorImage ==
    [valid |-> TRUE, data |-> [DefaultSettings EXCEPT !.clampMinPercent = 0]]

\* demands of the calls made before the demand settles
UnsettledDemands == {0, 100}

\* calls in any phase with a demand the engine returns in that phase, until
\* the demand settles
Unsettled ==
    /\ op # "settle"
    /\ \E demand \in UnsettledDemands, phase \in BurnState :
           EngineDemand(demand, phase) /\ FanApply(demand, phase)

Settling == \E demand \in Demands, phase \in SettlePhases : Settle(demand, phase)

NextSettle ==
    \/ Unsettled
    \/ Settling
    \/ (op # "settle" /\ ToggleDeadzone)

\* loop() never stops calling the fan layer
SpecSettle ==
    /\ InitFrom({BlankImage, ZeroFloorImage})
    /\ [][NextSettle]_vars
    /\ WF_vars(Settling)

\* C35: under a constant demand d in a phase without override the smoothed
\* value moves towards d in every call without crossing it, and eventually
\* equals d.
C35_SmoothingConverges ==
    /\ [][op' = "settle" =>
             /\ lastFan <= rawFan' => (lastFan <= lastFan' /\ lastFan' <= rawFan')
             /\ lastFan >= rawFan' => (rawFan' <= lastFan' /\ lastFan' <= lastFan)]_vars
    /\ (op = "settle") ~> (lastFan = rawFan)

\* C36: in hysteresis mode, while the phase stays COALBED with raw demand 0
\* and no command is issued, the final fan percent eventually becomes 0 and
\* stays 0.
C36_CoalbedFanStops ==
    (op = "settle" /\ burnState = BURN_COALBED /\ cfg.deadzoneFanMode = 0)
        ~> [](finalFan = 0)

\* COALBED calls in hysteresis mode with clampMin 0: the fan is never
\* switched off, and the output has reached 0 with the smoothed value
C36_Witness ==
    /\ op = "settle"
    /\ burnState = BURN_COALBED
    /\ prePhase = BURN_COALBED
    /\ cfg.deadzoneFanMode = 0
    /\ cfg.clampMinPercent = 0
    /\ fanOn
    /\ lastFan = 0
    /\ finalFan = 0

\* C37: at the end of every complete pass (engine call, then fan call), in
\* either fan mode, a closed damper implies a final fan percent of 0.
C37_FanDamperInterlock ==
    (op = "applyStep" /\ damperRelay = HIGH) => finalFan = 0

\* C38: when the hardware keeps delivering the same valid in-range
\* temperature, the cached raw value comes to equal it, whatever was cached
\* before: at the latest with the fourth consecutive read of that value.
C38_CacheTracks ==
    steady >= SteadyReads => lastTCValueF = RawTempF(hwWord)

\* C39: after the load at power-on and after every sequence of editor
\* commands every stored parameter equals the parameter in memory, also a
\* second parameter changed by the repair of clampMin <= clampMax or of
\* flueRecovery >= flueLow + 10.
C39_StoredEqualsMemory == rom = cfg

\* the first edit after power-on set clamp-max to 3, below the minimum; the
\* lowered minimum is stored as well
C39_Witness ==
    /\ op = "setClampMax"
    /\ cmds = 1
    /\ cfg.clampMaxPercent = 3
    /\ cfg.clampMinPercent = 3
    /\ rom.clampMaxPercent = 3
    /\ rom.clampMinPercent = 3

\* ------------------------------------------------------------------------
\* ---- the elapsed-time tests around the wrap of millis() ------------------
\* True times (in steps since power-on) at which a timer is started: right
\* after boot, and shortly before the counter wraps.
WrapStarts ==
    {ToSteps(BootMs)}
    \cup {ClockMod - x : x \in {1, 125, 750, 1250, 7500, 75000, 450000}}

\* True elapsed times between the start of a timer and its test: either side
\* of 500 ms, 3 s, 5 s, 30 s, 5 min and 30 min, and one step short of a
\* full turn of the counter.
WrapElapsed ==
    {0, 124, 125, 749, 750, 1249, 1250, 7499, 7500, 74999, 75000,
     449999, 450000, ClockMod - 1}

\* a call of burnengine_compute() at true time s + el on the engine state e0,
\* whose timer was stamped at true time s; one test per run
TimerTest(e0, temp, s, el, name) ==
    LET t == (s + el) % ClockMod
        e == burnengine_compute(e0, temp, t, cfg)
    IN  /\ op = "setup"
        /\ now' = t
        /\ clock' = s + el
        /\ winT0' = s
        /\ smoothExh' = temp
        /\ SetEng(e)
        /\ rawFan' = e.ret
        /\ Note(name)
        /\ UNCHANGED <<fanVars, cfg, rom, finalFan, sensVars, winOpen,
                       lastOutBand, lastRampBreak, lastNotLow, scen, scenT0,
                       cmds>>

\* start-boost at s, tick at s + el
BoostTest(s, el) ==
    TimerTest(burnengine_startBoost([Globals EXCEPT !.damperRelay = LOW],
                                    s % ClockMod),
              cfg.exhaustSetpoint, s, el, "boostTest")

\* a RAMP tick inside the HOLD band at s has started the HOLD timer; tick
\* inside the band at s + el
HoldTimerTest(s, el) ==
    TimerTest([Globals EXCEPT !.burnState = BURN_RAMP,
                              !.holdTimerActive = TRUE,
                              !.holdStartMs = s % ClockMod,
                              !.damperRelay = LOW],
              cfg.exhaustSetpoint, s, el, "holdTest")

\* a HOLD tick below the RAMP band at s has started the fallback timer; tick
\* below the band at s + el
RampTimerTest(s, el) ==
    TimerTest([Globals EXCEPT !.burnState = BURN_HOLD,
                              !.rampTimerActive = TRUE,
                              !.rampStartMs = s % ClockMod,
                              !.damperRelay = LOW],
              cfg.exhaustSetpoint - 2 * cfg.deadbandF - 10, s, el, "rampTest")

\* a RAMP tick below the flue-low threshold at s has started the COALBED
\* timer; tick below the threshold at s + el
CoalbedTimerTest(s, el) ==
    TimerTest([Globals EXCEPT !.burnState = BURN_RAMP,
                              !.coalbedTimerActive = TRUE,
                              !.coalbedStartMs = s % ClockMod,
                              !.damperRelay = LOW],
              cfg.flueLowThreshold - 10, s, el, "coalbedTest")

\* hardware read at s, exhaust_readF_cached() called at s + el
CadenceTest(s, el) ==
    LET t == (s + el) % ClockMod
        open == CadenceOpen(t, s % ClockMod)
    IN  /\ op = "setup"
        /\ now' = t
        /\ clock' = s + el
        /\ winT0' = s
        /\ lastTCRead' = IF open THEN t ELSE s % ClockMod
        /\ didRead' = open
        /\ Note("cadenceTest")
        /\ UNCHANGED <<engVars, fanVars, cfg, rom, smoothExh, rawFan, finalFan,
                       lastTCValueF, sampleF, hwWord, lastAttempt, steady,
                       smoothLast, winOpen, lastOutBand, lastRampBreak,
                       lastNotLow, scen, scenT0, cmds>>

NextWrap ==
    \E s \in WrapStarts, el \in WrapElapsed :
        \/ BoostTest(s, el)
        \/ HoldTimerTest(s, el)
        \/ RampTimerTest(s, el)
        \/ CoalbedTimerTest(s, el)
        \/ CadenceTest(s, el)

SpecWrap == InitRun /\ [][NextWrap]_vars

\* C40: for a true elapsed time below one full turn of the counter, the
\* boost-expiry test, the HOLD, RAMP-fallback and COALBED timer tests and
\* the sensor cadence test decide as the elapsed time itself decides, also
\* when the counter has wrapped between the start and the test.
C40_WrapSafe ==
    LET el == clock - winT0
    IN  /\ op = "boostTest" =>
               (burnState = BURN_BOOST
                    <=> el < cfg.boostTimeSeconds * ToSteps(1000))
        /\ op = "holdTest" =>
               (burnState = BURN_HOLD <=> el >= ToSteps(HOLD_STABILITY_MS))
        /\ op = "rampTest" =>
               (burnState = BURN_RAMP <=> el >= ToSteps(RAMP_STABILITY_MS))
        /\ op = "coalbedTest" =>
               (burnState = BURN_COALBED
                    <=> el >= cfg.coalBedTimerMinutes * 60 * ToSteps(1000))
        /\ op = "cadenceTest" => (didRead <=> el >= ToSteps(CADENCE_MS))

\* the HOLD timer was started 5 s before the wrap and has fired at the wrap
C40_Witness ==
    /\ op = "holdTest"
    /\ burnState = BURN_HOLD
    /\ clock >= ClockMod
    /\ now < winT0
    /\ clock - winT0 = ToSteps(HOLD_STABILITY_MS)

====
